---- MODULE Spec2Model ----
(***************************************************************************)
(* FlowBeat player: the global player store (usePlayerStore), the user     *)
(* store's session (useUserStore) that clears it on logout, the audio      *)
(* controller (useAudio) over the platform's audio elements, and the       *)
(* player component (AudioPlayer.vue) that wires the controller to the     *)
(* store.                                                                  *)
(*                                                                         *)
(* The store keeps the playback queue, the index of the current track in   *)
(* it, a copy of the current track, the play mode and a mirror of the      *)
(* transport's playing flag.  Every store method is one action.            *)
(*                                                                         *)
(* A Music object is modelled by its identifier: the store never reads any *)
(* other field of it.  JavaScript's null and undefined are two distinct    *)
(* values; array indices are 0-based as in the source.                     *)
(***************************************************************************)
EXTENDS Integers, Sequences, FiniteSets, TLC

\* ------------------------------------------------------------------------
\* Bounds of the model
\* ------------------------------------------------------------------------

\* number of distinct track identifiers
MaxId == 3

\* longest queue (and longest list handed to setPlaylist)
MaxLen == 3

\* audio elements the controller creates in one run
MaxElements == 2

\* play() requests awaiting the platform at the same time
MaxPending == 1

\* 'play' and 'pause' events of one element awaiting dispatch at the same time
MaxQueued == 2

\* longest media duration, in seconds
MaxTime == 1

\* elements created after which the mounted player is not driven further
MaxLoads == 3

\* the number 1 of the volume scale: volumes are counted in tenths
One == 10

\* ------------------------------------------------------------------------
\* Values
\* ------------------------------------------------------------------------

NULL == [kind |-> "null"]

UNDEFINED == [kind |-> "undefined"]

Ids == 1..MaxId

Music == [kind : {"music"}, id : Ids]

SEQUENTIAL == "sequential"

REPEAT_ONE == "repeat_one"

SHUFFLE == "shuffle"

PlayMode == {SEQUENTIAL, REPEAT_ONE, SHUFFLE}

\* the track with identifier i
Track(i) == [kind |-> "music", id |-> i]

\* the largest identifier in a list, 0 for the empty list
RECURSIVE MaxIdIn(_)
MaxIdIn(l) ==
    IF Len(l) = 0 THEN 0
    ELSE LET rest == MaxIdIn(SubSeq(l, 1, Len(l) - 1))
         IN  IF l[Len(l)].id > rest THEN l[Len(l)].id ELSE rest

\* The lists of at most n tracks, one per renaming of the identifiers: the
\* identifiers make their first appearance in increasing order (<<1, 1, 2>>
\* stands for <<2, 2, 1>>, <<3, 3, 1>>, ...).  Repeated identifiers are
\* included.  The store tests identifiers for equality only and setPlaylist
\* overwrites every field that holds a track, so the renamings add no
\* behaviour.
RECURSIVE ListsUpTo(_)
ListsUpTo(n) ==
    IF n = 0 THEN {<<>>}
    ELSE LET shorter == ListsUpTo(n - 1)
             longest == {l \in shorter : Len(l) = n - 1}
             fresh(l) == IF MaxIdIn(l) < MaxId THEN MaxIdIn(l) + 1 ELSE MaxId
         IN  shorter \cup
             UNION {{Append(l, Track(i)) : i \in 1..fresh(l)} : l \in longest}

\* the track lists handed to setPlaylist
TrackLists == ListsUpTo(MaxLen)

\* start indices handed to setPlaylist and indices handed to jumpTo:
\* negative, every position, and past the end
Indices == -1..MaxLen

\* ------------------------------------------------------------------------
\* State
\* ------------------------------------------------------------------------

VARIABLES currentTrack, playlist, currentIndex, playMode, isPlaying, lastCall

vars == <<currentTrack, playlist, currentIndex, playMode, isPlaying, lastCall>>

\* The user store: the access token, the user's record, and whether a
\* request for the user's record (GET /users/me) is in flight.
VARIABLES token, userInfo, fetching

sessionVars == <<token, userInfo, fetching>>

\* The audio controller: its refs (isPlaying, currentTime, duration, volume,
\* buffered, isLoading), the element it holds (audio: a position in
\* elements, 0 for null), every audio element created so far, and the record
\* of its last step.
VARIABLES refs, audio, elements, lastAudio

audioVars == <<refs, audio, elements, lastAudio>>

\* The player component: where its running handler stands (pc, "idle" when
\* none runs), the interaction reports its handlers await, the values its
\* two watchers saw last, and the current track at each 'ended' heard so far.
VARIABLES pc, reports, watchedTrack, watchedPlaying, endedTracks

playerVars == <<pc, reports, watchedTrack, watchedPlaying, endedTracks>>

allVars == <<vars, sessionVars, audioVars, playerVars>>

\* what a player store method leaves alone
notStore == <<sessionVars, audioVars, playerVars>>

\* what the audio controller leaves alone
notAudio == <<vars, sessionVars, playerVars>>

\* ------------------------------------------------------------------------
\* Array helpers (JavaScript semantics, 0-based)
\* ------------------------------------------------------------------------

\* list[i]: undefined outside 0..length-1
At(list, i) == IF i >= 0 /\ i < Len(list) THEN list[i + 1] ELSE UNDEFINED

\* list.findIndex(t => t.id === id): the first position, or -1
FindIndex(list, id) ==
    IF \E k \in 1..Len(list) : list[k].id = id
    THEN (CHOOSE k \in 1..Len(list) :
              /\ list[k].id = id
              /\ \A j \in 1..(k - 1) : list[j].id # id) - 1
    ELSE -1

\* list.some(t => t.id === id)
Some(list, id) == \E k \in 1..Len(list) : list[k].id = id

\* list.splice(i, 1): a negative i counts from the end
Splice(list, i) ==
    LET at == IF i < 0 THEN (IF Len(list) + i < 0 THEN 0 ELSE Len(list) + i) ELSE i
    IN  [k \in 1..(IF at < Len(list) THEN Len(list) - 1 ELSE Len(list)) |->
            IF k <= at THEN list[k] ELSE list[k + 1]]

\* Math.max(a, b)
Max(a, b) == IF a >= b THEN a ELSE b

\* value || null
OrNull(v) == IF v = UNDEFINED THEN NULL ELSE v

\* the record of the last method call: its name, the branch it took and the
\* value it returned (undefined for the void methods)
Call(op, path, ret) == [op |-> op, path |-> path, ret |-> ret]

\* ------------------------------------------------------------------------
\* Computed properties
\* ------------------------------------------------------------------------

isEmpty == Len(playlist) = 0

queueLength == Len(playlist)

hasNext ==
    IF isEmpty THEN FALSE
    ELSE IF playMode = REPEAT_ONE THEN TRUE
    ELSE IF playMode = SHUFFLE THEN TRUE
    ELSE currentIndex < Len(playlist) - 1

hasPrevious ==
    IF isEmpty THEN FALSE
    ELSE IF playMode = REPEAT_ONE THEN TRUE
    ELSE IF playMode = SHUFFLE THEN TRUE
    ELSE currentIndex > 0

\* ------------------------------------------------------------------------
\* Initial state
\* ------------------------------------------------------------------------

\* the player store as constructed
PlayerInit ==
    /\ currentTrack = NULL
    /\ playlist = <<>>
    /\ currentIndex = -1
    /\ playMode = SEQUENTIAL
    /\ isPlaying = FALSE
    /\ lastCall = Call("init", "", UNDEFINED)

\* the record of the controller's last step: the method called ("play()"),
\* the event handled ("play"; "unheard" when no listener was attached) or the
\* settlement of a play() request; whether it came from an element other
\* than the one held; and the hook it invoked
Step(op, stale, hook) == [op |-> op, stale |-> stale, hook |-> hook]

\* the refs as constructed
InitialRefs ==
    [isPlaying |-> FALSE, currentTime |-> 0, duration |-> 0,
     volume |-> One, buffered |-> 0, isLoading |-> FALSE]

\* the audio controller as constructed: no element
AudioInit ==
    /\ refs = InitialRefs
    /\ audio = 0
    /\ elements = <<>>
    /\ lastAudio = Step("init", FALSE, "none")

\* the player component as mounted over an empty store: the watcher of the
\* current track has run once ({immediate: true}) and found no track
MountedInit ==
    /\ pc = "idle"
    /\ reports = [ended |-> 0, next |-> 0]
    /\ watchedTrack = NULL
    /\ watchedPlaying = FALSE
    /\ endedTracks = <<>>

\* a browser that holds no token
Init ==
    /\ PlayerInit
    /\ AudioInit
    /\ MountedInit
    /\ token = NULL
    /\ userInfo = NULL
    /\ fetching = FALSE

\* ------------------------------------------------------------------------
\* Methods
\* ------------------------------------------------------------------------

\* setPlaylist with the upper bound of the start index off by one
setPlaylistOffByOne(tracks, startIndex) ==
    /\ playlist' = tracks
    /\ IF Len(tracks) > 0 /\ startIndex >= 0 /\ startIndex <= Len(tracks)
       THEN /\ currentIndex' = startIndex
            /\ currentTrack' = At(tracks, startIndex)
            /\ lastCall' = Call("setPlaylist", "in_bounds", UNDEFINED)
       ELSE /\ currentIndex' = -1
            /\ currentTrack' = NULL
            /\ lastCall' = Call("setPlaylist", "out_of_bounds", UNDEFINED)
    /\ UNCHANGED <<playMode, isPlaying>>

setPlaylist(tracks, startIndex) ==
    /\ playlist' = tracks
    /\ IF Len(tracks) > 0 /\ startIndex >= 0 /\ startIndex < Len(tracks)
       THEN /\ currentIndex' = startIndex
            /\ currentTrack' = At(tracks, startIndex)
            /\ lastCall' = Call("setPlaylist", "in_bounds", UNDEFINED)
       ELSE /\ currentIndex' = -1
            /\ currentTrack' = NULL
            /\ lastCall' = Call("setPlaylist", "out_of_bounds", UNDEFINED)
    /\ UNCHANGED <<playMode, isPlaying>>

\* addToPlaylist making every pushed track the current one
addToPlaylistAlwaysCurrent(track) ==
    LET exists == Some(playlist, track.id)
        pushed == IF ~exists THEN Append(playlist, track) ELSE playlist
    IN  /\ exists \/ Len(playlist) < MaxLen
        /\ playlist' = pushed
        /\ IF ~exists
           THEN /\ currentIndex' = Len(pushed) - 1
                /\ currentTrack' = track
           ELSE UNCHANGED <<currentIndex, currentTrack>>
        /\ lastCall' = Call("addToPlaylist", IF exists THEN "exists" ELSE "pushed",
                            UNDEFINED)
        /\ UNCHANGED <<playMode, isPlaying>>

addToPlaylist(track) ==
    LET exists == Some(playlist, track.id)
        pushed == IF ~exists THEN Append(playlist, track) ELSE playlist
    IN  /\ exists \/ Len(playlist) < MaxLen
        /\ playlist' = pushed
        /\ IF Len(pushed) = 1
           THEN /\ currentIndex' = 0
                /\ currentTrack' = track
           ELSE UNCHANGED <<currentIndex, currentTrack>>
        /\ lastCall' = Call("addToPlaylist",
                            IF exists
                            THEN (IF Len(pushed) = 1 THEN "exists_single" ELSE "exists")
                            ELSE (IF Len(pushed) = 1 THEN "pushed_first" ELSE "pushed"),
                            UNDEFINED)
        /\ UNCHANGED <<playMode, isPlaying>>

\* the index adjustment without the branch for the last element
AdjustedIndexNoLastCase(index) ==
    IF index < currentIndex THEN currentIndex - 1 ELSE currentIndex

\* the index adjustment stepping back whenever the current track is removed
AdjustedIndexStepBack(index) ==
    IF index = currentIndex THEN Max(0, index - 1)
    ELSE IF index < currentIndex THEN currentIndex - 1
    ELSE currentIndex

\* the index adjustment without the shift for a removal before the current
\* track
AdjustedIndexNoShift(index) ==
    IF index = currentIndex
    THEN (IF index = Len(playlist) - 1 THEN Max(0, index - 1) ELSE currentIndex)
    ELSE currentIndex

\* removeFromPlaylist, the value of currentIndex before the splice, for the
\* removal of position index
AdjustedIndex(index) ==
    IF index = currentIndex
    THEN (IF index = Len(playlist) - 1 THEN Max(0, index - 1) ELSE currentIndex)
    ELSE IF index < currentIndex THEN currentIndex - 1
    ELSE currentIndex

\* the refresh that keeps the old current track of a queue left non-empty
RefreshCurrentStale(spliced, adjusted) ==
    IF Len(spliced) = 0
    THEN /\ currentTrack' = NULL
         /\ currentIndex' = -1
    ELSE /\ currentTrack' = currentTrack
         /\ currentIndex' = adjusted

\* removeFromPlaylist, the refresh of the current track after the splice
RefreshCurrent(spliced, adjusted) ==
    IF Len(spliced) = 0
    THEN /\ currentTrack' = NULL
         /\ currentIndex' = -1
    ELSE /\ currentTrack' = OrNull(At(spliced, adjusted))
         /\ currentIndex' = adjusted

\* the branch removeFromPlaylist took
RemovePath(index) ==
    IF index = -1 THEN "not_found"
    ELSE IF index = currentIndex
         THEN (IF index = Len(playlist) - 1 THEN "current_last" ELSE "current_not_last")
    ELSE IF index < currentIndex THEN "before"
    ELSE "after"

\* removeFromPlaylist without the early return for an identifier not found
removeFromPlaylistNoGuard(trackId) ==
    LET index == FindIndex(playlist, trackId)
        spliced == Splice(playlist, index)
    IN  /\ playlist' = spliced
        /\ RefreshCurrent(spliced, AdjustedIndex(index))
        /\ lastCall' = Call("removeFromPlaylist", RemovePath(index), UNDEFINED)
        /\ UNCHANGED <<playMode, isPlaying>>

removeFromPlaylist(trackId) ==
    LET index == FindIndex(playlist, trackId)
        spliced == Splice(playlist, index)
    IN  IF index = -1
        THEN /\ lastCall' = Call("removeFromPlaylist", RemovePath(index), UNDEFINED)
             /\ UNCHANGED <<playlist, currentIndex, currentTrack, playMode, isPlaying>>
        ELSE /\ playlist' = spliced
             /\ RefreshCurrent(spliced, AdjustedIndex(index))
             /\ lastCall' = Call("removeFromPlaylist", RemovePath(index), UNDEFINED)
             /\ UNCHANGED <<playMode, isPlaying>>

\* clearPlaylist leaving the playing flag as it was
clearPlaylistKeepsPlaying ==
    /\ playlist' = <<>>
    /\ currentTrack' = NULL
    /\ currentIndex' = -1
    /\ lastCall' = Call("clearPlaylist", "", UNDEFINED)
    /\ UNCHANGED <<playMode, isPlaying>>

clearPlaylist ==
    /\ playlist' = <<>>
    /\ currentTrack' = NULL
    /\ currentIndex' = -1
    /\ isPlaying' = FALSE
    /\ lastCall' = Call("clearPlaylist", "", UNDEFINED)
    /\ UNCHANGED playMode

\* playTrack that does not jump to a track found in the queue
playTrackNoJump(track) ==
    LET index == FindIndex(playlist, track.id)
    IN  /\ index # -1 \/ Len(playlist) < MaxLen
        /\ IF index = -1
           THEN /\ playlist' = Append(playlist, track)
                /\ currentIndex' = Len(playlist)
                /\ lastCall' = Call("playTrack", "pushed", UNDEFINED)
           ELSE /\ lastCall' = Call("playTrack", "found", UNDEFINED)
                /\ UNCHANGED <<playlist, currentIndex>>
        /\ currentTrack' = track
        /\ UNCHANGED <<playMode, isPlaying>>

playTrack(track) ==
    LET index == FindIndex(playlist, track.id)
    IN  /\ index # -1 \/ Len(playlist) < MaxLen
        /\ IF index = -1
           THEN /\ playlist' = Append(playlist, track)
                /\ currentIndex' = Len(playlist)
                /\ lastCall' = Call("playTrack", "pushed", UNDEFINED)
           ELSE /\ currentIndex' = index
                /\ lastCall' = Call("playTrack", "found", UNDEFINED)
                /\ UNCHANGED playlist
        /\ currentTrack' = track
        /\ UNCHANGED <<playMode, isPlaying>>

\* the tail shared by playNext and playPrevious: select the computed index
\* and return the track found there
SelectIndex(op, path, index) ==
    /\ currentIndex' = index
    /\ currentTrack' = At(playlist, index)
    /\ lastCall' = Call(op, path, At(playlist, index))
    /\ UNCHANGED <<playlist, playMode, isPlaying>>

\* return null without touching the state
ReturnNull(op, path) ==
    /\ lastCall' = Call(op, path, NULL)
    /\ UNCHANGED <<currentTrack, playlist, currentIndex, playMode, isPlaying>>

\* a shuffle that draws once and keeps whatever index it drew
ShuffleChoicesAny == 0..(Len(playlist) - 1)

\* the indices the shuffle loop can leave with: Math.random() redrawn until
\* the index differs from the current one
ShuffleChoices == {n \in 0..(Len(playlist) - 1) : n # currentIndex}

\* playNext wrapping to the first track at the end of the queue
playNextWrap ==
    IF isEmpty THEN ReturnNull("playNext", "empty")
    ELSE IF playMode = REPEAT_ONE
         THEN SelectIndex("playNext", "repeat_one", currentIndex)
    ELSE IF playMode = SHUFFLE
         THEN IF Len(playlist) = 1
              THEN SelectIndex("playNext", "shuffle_single", 0)
              ELSE \E nextIndex \in ShuffleChoices :
                       SelectIndex("playNext", "shuffle", nextIndex)
    ELSE SelectIndex("playNext", "sequential", (currentIndex + 1) % Len(playlist))

playNext ==
    IF isEmpty THEN ReturnNull("playNext", "empty")
    ELSE IF playMode = REPEAT_ONE
         THEN SelectIndex("playNext", "repeat_one", currentIndex)
    ELSE IF playMode = SHUFFLE
         THEN IF Len(playlist) = 1
              THEN SelectIndex("playNext", "shuffle_single", 0)
              ELSE \E nextIndex \in ShuffleChoices :
                       SelectIndex("playNext", "shuffle", nextIndex)
    ELSE IF currentIndex >= Len(playlist) - 1
         THEN ReturnNull("playNext", "at_end")
    ELSE SelectIndex("playNext", "sequential", currentIndex + 1)

playPrevious ==
    IF isEmpty THEN ReturnNull("playPrevious", "empty")
    ELSE IF playMode = REPEAT_ONE
         THEN SelectIndex("playPrevious", "repeat_one", currentIndex)
    ELSE IF playMode = SHUFFLE
         THEN IF Len(playlist) = 1
              THEN SelectIndex("playPrevious", "shuffle_single", 0)
              ELSE \E prevIndex \in ShuffleChoices :
                       SelectIndex("playPrevious", "shuffle", prevIndex)
    ELSE IF currentIndex <= 0
         THEN ReturnNull("playPrevious", "at_start")
    ELSE SelectIndex("playPrevious", "sequential", currentIndex - 1)

modes == <<SEQUENTIAL, REPEAT_ONE, SHUFFLE>>

\* modes.indexOf(mode), 0-based
ModeIndexOf(mode) == (CHOOSE k \in 1..Len(modes) : modes[k] = mode) - 1

\* a toggle that never reaches the last mode of the list
NextModeSkipLast(mode) ==
    LET currentModeIndex == ModeIndexOf(mode)
        nextModeIndex == (currentModeIndex + 1) % (Len(modes) - 1)
    IN  modes[nextModeIndex + 1]

\* togglePlayMode, the mode that follows mode
NextMode(mode) ==
    LET currentModeIndex == ModeIndexOf(mode)
        nextModeIndex == (currentModeIndex + 1) % Len(modes)
    IN  modes[nextModeIndex + 1]

togglePlayMode ==
    /\ playMode' = NextMode(playMode)
    /\ lastCall' = Call("togglePlayMode", "", UNDEFINED)
    /\ UNCHANGED <<currentTrack, playlist, currentIndex, isPlaying>>

\* setPlaying that empties the queue when playback stops
setPlayingDropsQueue(playing) ==
    /\ isPlaying' = playing
    /\ playlist' = IF playing THEN playlist ELSE <<>>
    /\ lastCall' = Call("setPlaying", "", UNDEFINED)
    /\ UNCHANGED <<currentTrack, currentIndex, playMode>>

setPlaying(playing) ==
    /\ isPlaying' = playing
    /\ lastCall' = Call("setPlaying", "", UNDEFINED)
    /\ UNCHANGED <<currentTrack, playlist, currentIndex, playMode>>

\* jumpTo with the upper bound of the index off by one
jumpToOffByOne(index) ==
    IF index >= 0 /\ index <= Len(playlist)
    THEN /\ currentIndex' = index
         /\ currentTrack' = At(playlist, index)
         /\ lastCall' = Call("jumpTo", "in_bounds", UNDEFINED)
         /\ UNCHANGED <<playlist, playMode, isPlaying>>
    ELSE /\ lastCall' = Call("jumpTo", "out_of_bounds", UNDEFINED)
         /\ UNCHANGED <<currentTrack, playlist, currentIndex, playMode, isPlaying>>

jumpTo(index) ==
    IF index >= 0 /\ index < Len(playlist)
    THEN /\ currentIndex' = index
         /\ currentTrack' = At(playlist, index)
         /\ lastCall' = Call("jumpTo", "in_bounds", UNDEFINED)
         /\ UNCHANGED <<playlist, playMode, isPlaying>>
    ELSE /\ lastCall' = Call("jumpTo", "out_of_bounds", UNDEFINED)
         /\ UNCHANGED <<currentTrack, playlist, currentIndex, playMode, isPlaying>>

\* ------------------------------------------------------------------------
\* The user store's session
\* ------------------------------------------------------------------------

\* an access token: handed out by the server, kept in localStorage
AccessToken == [kind |-> "token"]

\* the user's record the server returns
UserRecord == [kind |-> "user"]

\* what logout does when reached along `path` ("" when called directly):
\* it forgets the token and the user and clears the player store
LogoutVia(path) ==
    /\ token' = NULL
    /\ userInfo' = NULL
    /\ playlist' = <<>>
    /\ currentTrack' = NULL
    /\ currentIndex' = -1
    /\ isPlaying' = FALSE
    /\ lastCall' = Call("logout", path, UNDEFINED)
    /\ UNCHANGED playMode

\* logout that forgets the session but leaves the player store alone
logoutKeepsQueue ==
    /\ token' = NULL
    /\ userInfo' = NULL
    /\ lastCall' = Call("logout", "", UNDEFINED)
    /\ UNCHANGED <<playlist, currentTrack, currentIndex, isPlaying, playMode, fetching>>

\* logout, from the header, the sidebar or the 401 interceptor
logout ==
    /\ LogoutVia("")
    /\ UNCHANGED fetching

\* login whose POST succeeded: the token is stored and the user's record is
\* requested (the login page is open to a user without a token only)
login ==
    /\ ~fetching
    /\ token = NULL
    /\ token' = AccessToken
    /\ fetching' = TRUE
    /\ UNCHANGED <<userInfo, vars>>

\* fetchUserInfo called by the router guard: a token but no user's record yet
fetchUserInfo ==
    /\ ~fetching
    /\ token # NULL
    /\ userInfo = NULL
    /\ fetching' = TRUE
    /\ UNCHANGED <<token, userInfo, vars>>

\* the request for the user's record succeeded
fetchUserInfoResolved ==
    /\ fetching
    /\ userInfo' = UserRecord
    /\ fetching' = FALSE
    /\ UNCHANGED <<token, vars>>

\* the request for the user's record failed: fetchUserInfo logs out and
\* rethrows
fetchUserInfoRejected ==
    /\ fetching
    /\ LogoutVia("fetchUserInfo")
    /\ fetching' = FALSE

\* ------------------------------------------------------------------------
\* The platform's audio elements
\* ------------------------------------------------------------------------

\* the events the controller subscribes to
EventTypes ==
    {"timeupdate", "loadedmetadata", "ended", "play", "pause", "progress",
     "waiting", "canplay", "error"}

\* Math.min(a, b)
Min(a, b) == IF a <= b THEN a ELSE b

\* new Audio(url): paused, at position 0, at full volume, no listener, no
\* event and no play() request in flight.  src 0 stands for ''.  The
\* duration is NaN until the metadata arrive; it is written 0, which is how
\* the controller reads it (audio.duration || 0).
NewAudio(url) ==
    [src |-> url, paused |-> TRUE, ended |-> FALSE, currentTime |-> 0,
     duration |-> 0, volume |-> One, listeners |-> {}, queued |-> <<>>,
     pending |-> 0]

\* audio.pause(): a playing element becomes paused and owes a 'pause' event
AudioPause(el) ==
    IF el.paused THEN el
    ELSE [el EXCEPT !.paused = TRUE, !.queued = Append(@, "pause")]

\* audio.play() that the platform allows: an ended element starts over, a
\* paused element becomes playing and owes a 'play' event; the promise
\* returned stays pending
AudioPlay(el) ==
    [el EXCEPT !.paused = FALSE,
               !.ended = FALSE,
               !.currentTime = IF el.ended THEN 0 ELSE @,
               !.queued = IF el.paused THEN Append(@, "play") ELSE @,
               !.pending = @ + 1]

\* audio.play() that the platform blocks (autoplay policy): the promise
\* returned stays pending until it is rejected
AudioPlayBlocked(el) == [el EXCEPT !.pending = @ + 1]

\* audio.src = '': the element forgets its media.  The events it still owes
\* are delivered by StaleEvent.  Nothing reads the volume of an element
\* without media: it is not kept.
AudioUnload(el) ==
    [el EXCEPT !.src = 0, !.ended = FALSE, !.currentTime = 0, !.duration = 0,
               !.queued = <<>>, !.volume = One]

\* ------------------------------------------------------------------------
\* The audio controller (useAudio): event handlers
\* ------------------------------------------------------------------------
\* A handler is given the refs r it starts from and the elements els as the
\* platform left them, and yields the refs it leaves.

handleTimeUpdate(r, els) ==
    IF audio # 0 THEN [r EXCEPT !.currentTime = els[audio].currentTime] ELSE r

handleLoadedMetadata(r, els) ==
    IF audio # 0
    THEN [r EXCEPT !.duration = els[audio].duration, !.isLoading = FALSE]
    ELSE r

\* handleEnded that leaves the position where playback ended
handleEndedKeepsPosition(r) == [r EXCEPT !.isPlaying = FALSE]

handleEnded(r) == [r EXCEPT !.isPlaying = FALSE, !.currentTime = 0]

handlePlay(r) == [r EXCEPT !.isPlaying = TRUE]

handlePause(r) == [r EXCEPT !.isPlaying = FALSE]

\* bufferedEnd: the end of the last buffered range, 0 when there is no range
handleProgress(r, bufferedEnd) ==
    IF audio # 0 /\ bufferedEnd > 0
    THEN [r EXCEPT !.buffered = IF r.duration > 0
                                THEN (bufferedEnd * 100) \div r.duration
                                ELSE 0]
    ELSE r

handleWaiting(r) == [r EXCEPT !.isLoading = TRUE]

handleCanPlay(r) == [r EXCEPT !.isLoading = FALSE]

\* handleError that leaves the playing flag as it was
handleErrorKeepsPlaying(r) == [r EXCEPT !.isLoading = FALSE]

handleError(r) == [r EXCEPT !.isLoading = FALSE, !.isPlaying = FALSE]

\* the listener loadTrack attaches for each event type
Handle(type, r, els, bufferedEnd) ==
    CASE type = "timeupdate" -> handleTimeUpdate(r, els)
      [] type = "loadedmetadata" -> handleLoadedMetadata(r, els)
      [] type = "ended" -> handleEnded(r)
      [] type = "play" -> handlePlay(r)
      [] type = "pause" -> handlePause(r)
      [] type = "progress" -> handleProgress(r, bufferedEnd)
      [] type = "waiting" -> handleWaiting(r)
      [] type = "canplay" -> handleCanPlay(r)
      [] type = "error" -> handleError(r)

\* the hook a handler invokes (AudioPlayer passes no onTimeUpdate)
HookOf(type) ==
    CASE type = "ended" -> "onEnded"
      [] type = "error" -> "onError"
      [] OTHER -> "none"

\* The platform dispatches an event of type `type` at element e, the
\* elements being els: the listener runs if e still has it attached, and
\* nobody hears the event otherwise.
Dispatch(e, type, els, bufferedEnd) ==
    /\ elements' = els
    /\ IF type \in els[e].listeners
       THEN /\ refs' = Handle(type, refs, els, bufferedEnd)
            /\ lastAudio' = Step(type, e # audio, HookOf(type))
       ELSE /\ refs' = refs
            /\ lastAudio' = Step("unheard", e # audio, "none")
    /\ UNCHANGED audio

\* ------------------------------------------------------------------------
\* The platform's events
\* ------------------------------------------------------------------------
\* An element that holds media (src # 0) dispatches its events in the order
\* they arise: the 'play' and 'pause' events owed for calls come first.

\* the 'play' or 'pause' event owed longest is dispatched
Queued(e) ==
    /\ elements[e].src # 0
    /\ elements[e].queued # <<>>
    /\ Dispatch(e, Head(elements[e].queued),
                [elements EXCEPT ![e].queued = Tail(@)], 0)

\* the metadata arrive: the duration d is known from now on
LoadedMetadata(e, d) ==
    /\ elements[e].src # 0
    /\ elements[e].queued = <<>>
    /\ elements[e].duration = 0
    /\ Dispatch(e, "loadedmetadata", [elements EXCEPT ![e].duration = d], 0)

\* playback moves on (or not) and the position is reported
TimeUpdate(e, advance) ==
    /\ elements[e].src # 0
    /\ elements[e].queued = <<>>
    /\ elements[e].duration # 0
    /\ advance \in (IF elements[e].paused THEN {0} ELSE {0, 1})
    /\ Dispatch(e, "timeupdate",
                [elements EXCEPT ![e].currentTime =
                     Min(@ + advance, elements[e].duration)], 0)

\* more of the media is buffered, up to bufferedEnd
Progress(e, bufferedEnd) ==
    /\ elements[e].src # 0
    /\ elements[e].queued = <<>>
    /\ bufferedEnd <= elements[e].duration
    /\ Dispatch(e, "progress", elements, bufferedEnd)

\* playback stalls for lack of data
Waiting(e) ==
    /\ elements[e].src # 0
    /\ elements[e].queued = <<>>
    /\ ~elements[e].paused
    /\ Dispatch(e, "waiting", elements, 0)

\* enough data to play
CanPlay(e) ==
    /\ elements[e].src # 0
    /\ elements[e].queued = <<>>
    /\ elements[e].duration # 0
    /\ Dispatch(e, "canplay", elements, 0)

\* the media cannot be loaded or decoded
Error(e) ==
    /\ elements[e].src # 0
    /\ elements[e].queued = <<>>
    /\ Dispatch(e, "error", elements, 0)

\* Playback reaches the end: the element becomes paused and ended, and
\* dispatches 'pause' and then 'ended'.
Ended(e) ==
    /\ elements[e].src # 0
    /\ elements[e].queued = <<>>
    /\ elements[e].duration # 0
    /\ ~elements[e].paused
    /\ LET has(type) == type \in elements[e].listeners
           paused == IF has("pause") THEN handlePause(refs) ELSE refs
       IN  /\ elements' = [elements EXCEPT ![e].paused = TRUE,
                                           ![e].ended = TRUE,
                                           ![e].currentTime = elements[e].duration]
           /\ refs' = IF has("ended") THEN handleEnded(paused) ELSE paused
           /\ lastAudio' = IF has("ended")
                           THEN Step("ended", e # audio, HookOf("ended"))
                           ELSE Step("unheard", e # audio, "none")
    /\ UNCHANGED audio

\* An element whose media was unloaded dispatches an event that was in
\* flight, or one of the unloading: any type.
StaleEvent(e, type) ==
    /\ elements[e].src = 0
    /\ Dispatch(e, type, elements, 0)

\* ------------------------------------------------------------------------
\* The audio controller (useAudio): methods
\* ------------------------------------------------------------------------

\* cleanup's release that leaves the 'ended' listener attached
ReleaseKeepsEnded(el) ==
    AudioUnload([AudioPause(el) EXCEPT !.listeners = {"ended"}])

\* what cleanup does to the element held: pause it, remove the nine
\* listeners, unload it
Release(el) == AudioUnload([AudioPause(el) EXCEPT !.listeners = {}])

\* the elements after cleanup
CleanedElements ==
    IF audio # 0 THEN [elements EXCEPT ![audio] = Release(@)] ELSE elements

\* the refs after a cleanup that leaves the loading flag as it was
CleanedRefsKeepLoading ==
    [refs EXCEPT !.isPlaying = FALSE, !.currentTime = 0, !.duration = 0,
                 !.buffered = 0]

\* the refs after cleanup: all reset but the volume
CleanedRefs ==
    [refs EXCEPT !.isPlaying = FALSE, !.currentTime = 0, !.duration = 0,
                 !.buffered = 0, !.isLoading = FALSE]

cleanup ==
    /\ elements' = CleanedElements
    /\ audio' = 0
    /\ refs' = CleanedRefs
    /\ lastAudio' = Step("cleanup()", FALSE, "none")

\* the element of a loadTrack that leaves the new element at full volume
LoadedAtFullVolume(url) == [NewAudio(url) EXCEPT !.listeners = EventTypes]

\* the element loadTrack creates and subscribes to
Loaded(url) ==
    [NewAudio(url) EXCEPT !.volume = refs.volume, !.listeners = EventTypes]

\* loadTrack that does not clean up first
loadTrackNoCleanup(url) ==
    /\ elements' = Append(elements, Loaded(url))
    /\ audio' = Len(elements) + 1
    /\ refs' = [refs EXCEPT !.isLoading = TRUE, !.currentTime = 0,
                            !.duration = 0, !.buffered = 0]
    /\ lastAudio' = Step("loadTrack()", FALSE, "none")

\* the refs after a loadTrack that does not raise the loading flag
LoadedRefsNotLoading == CleanedRefs

\* the refs after loadTrack
LoadedRefs ==
    [CleanedRefs EXCEPT !.isLoading = TRUE, !.currentTime = 0,
                        !.duration = 0, !.buffered = 0]

loadTrack(url) ==
    /\ elements' = Append(CleanedElements, Loaded(url))
    /\ audio' = Len(elements) + 1
    /\ refs' = LoadedRefs
    /\ lastAudio' = Step("loadTrack()", FALSE, "none")

\* the play() requests awaiting the platform, over the elements els
RECURSIVE Pending(_)
Pending(els) ==
    IF els = <<>> THEN 0 ELSE Head(els).pending + Pending(Tail(els))

\* play up to its await: the platform allows the request or blocks it
play ==
    /\ lastAudio' = Step("play()", FALSE, "none")
    /\ UNCHANGED <<refs, audio>>
    /\ IF audio = 0 THEN UNCHANGED elements
       ELSE /\ Pending(elements) < MaxPending
            /\ Len(elements[audio].queued) < MaxQueued
            /\ \E el \in {AudioPlay(elements[audio]), AudioPlayBlocked(elements[audio])} :
                   elements' = [elements EXCEPT ![audio] = el]

\* play after its await, the request on element e fulfilled: playback began
playResolved(e) ==
    /\ elements[e].pending > 0
    /\ elements[e].src # 0
    /\ ~elements[e].paused
    /\ elements' = [elements EXCEPT ![e].pending = @ - 1]
    /\ lastAudio' = Step("play:resolved", e # audio, "none")
    /\ UNCHANGED <<refs, audio>>

\* play whose catch asks the element to play once more
playRejectedRetries(e) ==
    /\ elements[e].pending > 0
    /\ elements' = [elements EXCEPT ![e] = AudioPlay([@ EXCEPT !.pending = @ - 1])]
    /\ lastAudio' = Step("play:rejected", e # audio, "onError")
    /\ UNCHANGED <<refs, audio>>

\* play in its catch, the request on element e rejected: playback blocked,
\* interrupted by a pause or an unloading, or the media unusable
playRejected(e) ==
    /\ elements[e].pending > 0
    /\ elements' = [elements EXCEPT ![e].pending = @ - 1]
    /\ lastAudio' = Step("play:rejected", e # audio, "onError")
    /\ UNCHANGED <<refs, audio>>

pause ==
    /\ lastAudio' = Step("pause()", FALSE, "none")
    /\ UNCHANGED <<refs, audio>>
    /\ IF audio = 0 THEN UNCHANGED elements
       ELSE /\ Len(elements[audio].queued) < MaxQueued
            /\ elements' = [elements EXCEPT ![audio] = AudioPause(@)]

togglePlay == IF refs.isPlaying THEN pause ELSE play

\* seek that does not bound the time by the duration
seekNoUpperBound(time) ==
    /\ lastAudio' = Step("seek()", FALSE, "none")
    /\ UNCHANGED audio
    /\ IF audio = 0 THEN UNCHANGED <<refs, elements>>
       ELSE LET clampedTime == Max(0, time)
            IN  /\ elements' = [elements EXCEPT
                        ![audio].currentTime = clampedTime,
                        ![audio].ended = @ /\ clampedTime = elements[audio].duration]
                /\ refs' = [refs EXCEPT !.currentTime = clampedTime]

\* seek; an element moved away from its end is no longer ended
seek(time) ==
    /\ lastAudio' = Step("seek()", FALSE, "none")
    /\ UNCHANGED audio
    /\ IF audio = 0 THEN UNCHANGED <<refs, elements>>
       ELSE LET clampedTime == Max(0, Min(time, elements[audio].duration))
            IN  /\ elements' = [elements EXCEPT
                        ![audio].currentTime = clampedTime,
                        ![audio].ended = @ /\ clampedTime = elements[audio].duration]
                /\ refs' = [refs EXCEPT !.currentTime = clampedTime]

setVolume(vol) ==
    LET clampedVol == Max(0, Min(One, vol))
    IN  /\ refs' = [refs EXCEPT !.volume = clampedVol]
        /\ elements' = IF audio # 0
                       THEN [elements EXCEPT ![audio].volume = clampedVol]
                       ELSE elements
        /\ lastAudio' = Step("setVolume()", FALSE, "none")
        /\ UNCHANGED audio

\* ------------------------------------------------------------------------
\* The player component (AudioPlayer.vue)
\* ------------------------------------------------------------------------
\* A handler runs to its end, or to an await, before anything else does:
\* while pc is not "idle" only the handler's next step is enabled.  Watchers
\* are flushed right after the handler that changed what they watch, before
\* any event or settlement is handled.

\* track.file_url: every track has its own file
FileUrl(track) == track.id

\* JavaScript truthiness of a track value: null and undefined are falsy
Truthy(t) == t.kind = "music"

\* t?.id, undefined written 0 (no track has the identifier 0)
OptionalId(t) == IF Truthy(t) THEN t.id ELSE 0

\* no watcher has anything to flush
WatchersClean ==
    /\ watchedPlaying = refs.isPlaying
    /\ watchedTrack = currentTrack

\* no handler is running and no watcher has anything to flush
Settled == pc = "idle" /\ WatchersClean

\* loadTrack(url); await play(), up to the await
loadAndPlay(url) ==
    /\ \E el \in {AudioPlay(Loaded(url)), AudioPlayBlocked(Loaded(url))} :
           elements' = Append(CleanedElements, el)
    /\ audio' = Len(elements) + 1
    /\ refs' = LoadedRefs
    /\ lastAudio' = Step("play()", FALSE, "none")

\* watch(isPlaying): the store's flag follows the controller's
watchIsPlaying ==
    /\ pc = "idle"
    /\ watchedPlaying # refs.isPlaying
    /\ watchedPlaying' = refs.isPlaying
    /\ setPlaying(refs.isPlaying)
    /\ UNCHANGED <<sessionVars, audioVars, pc, reports, watchedTrack, endedTracks>>

\* watch(() => playerStore.currentTrack): a track with another identifier
\* is loaded and played.  It was created after watch(isPlaying) and is
\* flushed after it.
watchCurrentTrack ==
    /\ pc = "idle"
    /\ watchedPlaying = refs.isPlaying
    /\ watchedTrack # currentTrack
    /\ watchedTrack' = currentTrack
    /\ IF Truthy(currentTrack) /\ currentTrack.id # OptionalId(watchedTrack)
       THEN loadAndPlay(FileUrl(currentTrack))
       ELSE UNCHANGED audioVars
    /\ UNCHANGED <<vars, sessionVars, pc, reports, watchedPlaying, endedTracks>>

\* handleTrackEnded up to its await: the play is reported if there is a
\* current track; with none the handler goes on at once
handleTrackEndedReport ==
    /\ endedTracks' = Append(endedTracks, currentTrack)
    /\ IF Truthy(currentTrack)
       THEN reports' = [reports EXCEPT !.ended = @ + 1] /\ pc' = "idle"
       ELSE reports' = reports /\ pc' = "handleTrackEnded"

\* handleTrackEnded that advances the store and leaves the loading to others
handleTrackEndedAdvanceNoLoad ==
    /\ \/ pc = "handleTrackEnded" /\ reports' = reports
       \/ Settled /\ reports.ended > 0 /\ reports' = [reports EXCEPT !.ended = @ - 1]
    /\ playNext
    /\ UNCHANGED audioVars
    /\ pc' = IF Truthy(lastCall'.ret) THEN "idle" ELSE "setPlaying"
    /\ UNCHANGED <<sessionVars, watchedTrack, watchedPlaying, endedTracks>>

\* handleTrackEnded after its await, the report settled either way: the
\* store advances and the track it returns is loaded and played
handleTrackEndedAdvance ==
    /\ \/ pc = "handleTrackEnded" /\ reports' = reports
       \/ Settled /\ reports.ended > 0 /\ reports' = [reports EXCEPT !.ended = @ - 1]
    /\ playNext
    /\ IF Truthy(lastCall'.ret)
       THEN loadAndPlay(FileUrl(lastCall'.ret)) /\ pc' = "idle"
       ELSE UNCHANGED audioVars /\ pc' = "setPlaying"
    /\ UNCHANGED <<sessionVars, watchedTrack, watchedPlaying, endedTracks>>

\* handleTrackEnded with no next track
handleTrackEndedStop ==
    /\ pc = "setPlaying"
    /\ pc' = "idle"
    /\ setPlaying(FALSE)
    /\ UNCHANGED <<sessionVars, audioVars, reports, watchedTrack, watchedPlaying,
                   endedTracks>>

\* the store advances and the track it returns, if any, is loaded and played
AdvanceAndPlay ==
    /\ playNext
    /\ IF Truthy(lastCall'.ret)
       THEN loadAndPlay(FileUrl(lastCall'.ret))
       ELSE UNCHANGED audioVars

\* handleNext up to its await.  The button is rendered while there is a
\* current track and enabled while hasNext.  The skip is reported if the
\* controller is playing; if not, the handler advances at once.
handleNext ==
    /\ Settled
    /\ Truthy(currentTrack)
    /\ hasNext
    /\ IF refs.isPlaying
       THEN /\ reports.next < MaxPending
            /\ reports' = [reports EXCEPT !.next = @ + 1]
            /\ UNCHANGED <<vars, audioVars>>
       ELSE /\ reports' = reports
            /\ AdvanceAndPlay
    /\ UNCHANGED <<sessionVars, pc, watchedTrack, watchedPlaying, endedTracks>>

\* handleNext after its await, the report settled either way
handleNextResumed ==
    /\ Settled
    /\ reports.next > 0
    /\ reports' = [reports EXCEPT !.next = @ - 1]
    /\ AdvanceAndPlay
    /\ UNCHANGED <<sessionVars, pc, watchedTrack, watchedPlaying, endedTracks>>

\* handlePrevious; the button is rendered while there is a current track
\* and enabled while hasPrevious
handlePrevious ==
    /\ Settled
    /\ Truthy(currentTrack)
    /\ hasPrevious
    /\ playPrevious
    /\ IF Truthy(lastCall'.ret)
       THEN loadAndPlay(FileUrl(lastCall'.ret))
       ELSE UNCHANGED audioVars
    /\ UNCHANGED <<sessionVars, playerVars>>

\* handleTogglePlay; the button is rendered while there is a current track,
\* which is also what the handler checks first
handleTogglePlay ==
    /\ Settled
    /\ Truthy(currentTrack)
    /\ IF refs.isPlaying THEN pause ELSE play
    /\ UNCHANGED notAudio

\* a call of a store method by another component (the queue drawer, a list
\* view, the header), made when the player has settled
Viewed(call) ==
    /\ Settled
    /\ call
    /\ UNCHANGED notStore

\* a step of the controller or the platform as the mounted component sees
\* it: onEnded is handleTrackEnded, onError only logs
Wired(step) ==
    /\ Settled
    /\ step
    /\ IF lastAudio'.hook = "onEnded"
       THEN handleTrackEndedReport
       ELSE UNCHANGED <<pc, reports, endedTracks>>
    /\ UNCHANGED <<vars, sessionVars, watchedTrack, watchedPlaying>>

\* ------------------------------------------------------------------------
\* Specification: any sequence of store method calls
\* ------------------------------------------------------------------------

Next ==
    \/ \E tracks \in TrackLists, startIndex \in Indices :
           setPlaylist(tracks, startIndex) /\ UNCHANGED notStore
    \/ \E track \in Music : addToPlaylist(track) /\ UNCHANGED notStore
    \/ \E trackId \in Ids : removeFromPlaylist(trackId) /\ UNCHANGED notStore
    \/ clearPlaylist /\ UNCHANGED notStore
    \/ \E track \in Music : playTrack(track) /\ UNCHANGED notStore
    \/ playNext /\ UNCHANGED notStore
    \/ playPrevious /\ UNCHANGED notStore
    \/ togglePlayMode /\ UNCHANGED notStore
    \/ \E playing \in BOOLEAN : setPlaying(playing) /\ UNCHANGED notStore
    \/ \E index \in Indices : jumpTo(index) /\ UNCHANGED notStore

Spec == Init /\ [][Next]_allVars

\* ------------------------------------------------------------------------
\* Specification: store method calls of a user who logs in and out
\* ------------------------------------------------------------------------

\* the stores as constructed: localStorage may hold a token of an earlier visit
SessionInit ==
    /\ PlayerInit
    /\ AudioInit
    /\ MountedInit
    /\ token \in {NULL, AccessToken}
    /\ userInfo = NULL
    /\ fetching = FALSE

SessionNext ==
    \/ Next
    \/ login /\ UNCHANGED <<audioVars, playerVars>>
    \/ fetchUserInfo /\ UNCHANGED <<audioVars, playerVars>>
    \/ fetchUserInfoResolved /\ UNCHANGED <<audioVars, playerVars>>
    \/ fetchUserInfoRejected /\ UNCHANGED <<audioVars, playerVars>>
    \/ logout /\ UNCHANGED <<audioVars, playerVars>>

SpecSession == SessionInit /\ [][SessionNext]_allVars

\* ------------------------------------------------------------------------
\* Specification: the audio controller under any caller and platform
\* ------------------------------------------------------------------------

\* times handed to seek: negative, every position, past the end
SeekTimes == -1..(MaxTime + 1)

\* volumes handed to setVolume, in tenths: below 0, inside, above 1
VolumeArgs == {-5, 5, 15}

\* urls handed to loadTrack: the file of the first and of the last track
Urls == {1, MaxId}

\* the elements created so far
Created == 1..Len(elements)

AudioNext ==
    \/ \E url \in Urls :
           Len(elements) < MaxElements /\ loadTrack(url) /\ UNCHANGED notAudio
    \/ play /\ UNCHANGED notAudio
    \/ \E e \in Created : playResolved(e) /\ UNCHANGED notAudio
    \/ \E e \in Created : playRejected(e) /\ UNCHANGED notAudio
    \/ pause /\ UNCHANGED notAudio
    \/ togglePlay /\ UNCHANGED notAudio
    \/ \E time \in SeekTimes : seek(time) /\ UNCHANGED notAudio
    \/ \E vol \in VolumeArgs : setVolume(vol) /\ UNCHANGED notAudio
    \/ cleanup /\ UNCHANGED notAudio
    \/ \E e \in Created : Queued(e) /\ UNCHANGED notAudio
    \/ \E e \in Created, d \in 1..MaxTime :
           LoadedMetadata(e, d) /\ UNCHANGED notAudio
    \/ \E e \in Created, advance \in {0, 1} :
           TimeUpdate(e, advance) /\ UNCHANGED notAudio
    \/ \E e \in Created, bufferedEnd \in 0..MaxTime :
           Progress(e, bufferedEnd) /\ UNCHANGED notAudio
    \/ \E e \in Created : Waiting(e) /\ UNCHANGED notAudio
    \/ \E e \in Created : CanPlay(e) /\ UNCHANGED notAudio
    \/ \E e \in Created : Error(e) /\ UNCHANGED notAudio
    \/ \E e \in Created : Ended(e) /\ UNCHANGED notAudio
    \/ \E e \in Created, type \in EventTypes :
           StaleEvent(e, type) /\ UNCHANGED notAudio

SpecAudio == Init /\ [][AudioNext]_allVars

\* ------------------------------------------------------------------------
\* Specification: a queue played to its end with no user action
\* ------------------------------------------------------------------------

\* the queue of n tracks, each with its own identifier
Queue(n) == [k \in 1..n |-> Track(k)]

\* a list view has just called setPlaylist(Queue(n), 0) on the fresh store
\* under the mounted player: the watchers have not been flushed yet
EndedInit ==
    /\ \E n \in 1..MaxLen :
           /\ playlist = Queue(n)
           /\ currentTrack = Queue(n)[1]
    /\ currentIndex = 0
    /\ playMode = SEQUENTIAL
    /\ isPlaying = FALSE
    /\ lastCall = Call("setPlaylist", "in_bounds", UNDEFINED)
    /\ AudioInit
    /\ MountedInit
    /\ token = AccessToken
    /\ userInfo = UserRecord
    /\ fetching = FALSE

EndedNext ==
    \/ watchIsPlaying
    \/ watchCurrentTrack
    \/ handleTrackEndedAdvance
    \/ handleTrackEndedStop
    \/ \E e \in Created : Wired(playResolved(e))
    \/ \E e \in Created : Wired(playRejected(e))
    \/ \E e \in Created : Wired(Queued(e))
    \/ \E e \in Created, d \in 1..MaxTime : Wired(LoadedMetadata(e, d))
    \/ \E e \in Created, advance \in {0, 1} : Wired(TimeUpdate(e, advance))
    \/ \E e \in Created, bufferedEnd \in 0..MaxTime : Wired(Progress(e, bufferedEnd))
    \/ \E e \in Created : Wired(Waiting(e))
    \/ \E e \in Created : Wired(CanPlay(e))
    \/ \E e \in Created : Wired(Error(e))
    \/ \E e \in Created : Wired(Ended(e))
    \/ \E e \in Created, type \in EventTypes : Wired(StaleEvent(e, type))

SpecEnded == EndedInit /\ [][EndedNext]_allVars

\* ------------------------------------------------------------------------
\* Specification: the mounted player under a user and the platform
\* ------------------------------------------------------------------------
\* The runs in which the media load and play through: the platform reports
\* the metadata, the starts, the pauses and the ends, and settles the play()
\* requests; it reports no stall and no error.

\* the player is driven while fewer than MaxLoads elements were created
Driven(step) == Len(elements) < MaxLoads /\ step

\* the positions of the queue
Positions == 0..(Len(playlist) - 1)

PlayerNext ==
    \/ \E index \in Positions : Driven(Viewed(jumpTo(index)))
    \/ \E index \in Positions :
           Driven(Viewed(removeFromPlaylist(playlist[index + 1].id)))
    \/ Driven(Viewed(~isEmpty /\ clearPlaylist))
    \/ Driven(handleNext)
    \/ Driven(handleNextResumed)
    \/ Driven(handlePrevious)
    \/ Driven(handleTogglePlay)
    \/ Driven(watchIsPlaying)
    \/ Driven(watchCurrentTrack)
    \/ Driven(handleTrackEndedAdvance)
    \/ Driven(handleTrackEndedStop)
    \/ \E e \in Created : Driven(Wired(playResolved(e)))
    \/ \E e \in Created : Driven(Wired(playRejected(e)))
    \/ \E e \in Created : Driven(Wired(Queued(e)))
    \/ \E e \in Created, d \in 1..MaxTime : Driven(Wired(LoadedMetadata(e, d)))
    \/ \E e \in Created :
           Driven(Len(endedTracks) < MaxLen /\ Wired(Ended(e)))

SpecPlayer == EndedInit /\ [][PlayerNext]_allVars

\* ------------------------------------------------------------------------
\* Specification: a queue left to play in any play mode
\* ------------------------------------------------------------------------
\* The user sets the queue and from then on only presses the play-mode
\* button.  A repeated track is loaded again and again: the player is
\* followed for MaxLoads elements and MaxLen 'ended' events.

RepeatNext ==
    \/ Driven(Viewed(togglePlayMode))
    \/ Driven(watchIsPlaying)
    \/ Driven(watchCurrentTrack)
    \/ Driven(handleTrackEndedAdvance)
    \/ Driven(handleTrackEndedStop)
    \/ \E e \in Created : Driven(Wired(playResolved(e)))
    \/ \E e \in Created : Driven(Wired(playRejected(e)))
    \/ \E e \in Created : Driven(Wired(Queued(e)))
    \/ \E e \in Created, d \in 1..MaxTime : Driven(Wired(LoadedMetadata(e, d)))
    \/ \E e \in Created, advance \in {0, 1} :
           Driven(Wired(TimeUpdate(e, advance)))
    \/ \E e \in Created, bufferedEnd \in 0..MaxTime :
           Driven(Wired(Progress(e, bufferedEnd)))
    \/ \E e \in Created : Driven(Wired(Waiting(e)))
    \/ \E e \in Created : Driven(Wired(CanPlay(e)))
    \/ \E e \in Created : Driven(Wired(Error(e)))
    \/ \E e \in Created :
           Driven(Len(endedTracks) < MaxLen /\ Wired(Ended(e)))
    \/ \E e \in Created, type \in EventTypes : Driven(Wired(StaleEvent(e, type)))

SpecRepeat == EndedInit /\ [][RepeatNext]_allVars

\* ------------------------------------------------------------------------
\* Specification: every store method and the transport events
\* ------------------------------------------------------------------------
\* Other components call the ten store methods while the mounted player
\* plays: the platform reports the starts and pauses, the metadata, the
\* position, stalls, errors and ends.

\* the player is followed while fewer than MaxElements elements were created
Followed(step) == Len(elements) < MaxElements /\ step

\* the tracks the other components hand over: the first and the last
Handed == {Track(1), Track(MaxId)}

FrameNext ==
    \/ \E tracks \in {Queue(1), Queue(2)} :
           Followed(Viewed(setPlaylist(tracks, 0)))
    \/ \E track \in Handed : Followed(Viewed(addToPlaylist(track)))
    \/ \E track \in Handed : Followed(Viewed(removeFromPlaylist(track.id)))
    \/ Followed(Viewed(clearPlaylist))
    \/ \E track \in Handed : Followed(Viewed(playTrack(track)))
    \/ Followed(Viewed(playNext))
    \/ Followed(Viewed(playPrevious))
    \/ Followed(Viewed(togglePlayMode))
    \/ \E playing \in BOOLEAN : Followed(Viewed(setPlaying(playing)))
    \/ \E index \in Positions : Followed(Viewed(jumpTo(index)))
    \/ Followed(watchIsPlaying)
    \/ Followed(watchCurrentTrack)
    \/ Followed(handleTrackEndedAdvance)
    \/ Followed(handleTrackEndedStop)
    \/ \E e \in Created : Followed(Wired(Queued(e)))
    \/ \E e \in Created : Followed(Wired(LoadedMetadata(e, MaxTime)))
    \/ \E e \in Created : Followed(Wired(TimeUpdate(e, 1)))
    \/ \E e \in Created : Followed(Wired(Waiting(e)))
    \/ \E e \in Created : Followed(Wired(CanPlay(e)))
    \/ \E e \in Created : Followed(Wired(Error(e)))
    \/ \E e \in Created :
           Followed(Len(endedTracks) < MaxLen /\ Wired(Ended(e)))

SpecFrame == Init /\ [][FrameNext]_allVars

\* ------------------------------------------------------------------------
\* Properties of the queue
\* ------------------------------------------------------------------------

\* null or undefined: no track
IsNone(t) == t = NULL \/ t = UNDEFINED

\* two tracks with the same identifier
SameId(a, b) == a.kind = "music" /\ b.kind = "music" /\ a.id = b.id

\* C3: the queue never holds two tracks with the same identifier.
NoDuplicateIds ==
    \A j, k \in 1..Len(playlist) : playlist[j].id = playlist[k].id => j = k

\* C1: the stored current track agrees with the queue.  It is none exactly
\* when currentIndex is -1, and otherwise it has the identifier of
\* playlist[currentIndex].
CurrentTrackAgreesWithQueue ==
    /\ IsNone(currentTrack) <=> currentIndex = -1
    /\ currentIndex # -1 => SameId(currentTrack, At(playlist, currentIndex))

\* the current track was the last of the queue and was removed: the new
\* last track is current
CurrentMovedToNewLast ==
    /\ lastCall.op = "removeFromPlaylist"
    /\ lastCall.path = "current_last"
    /\ NoDuplicateIds
    /\ Len(playlist) = 2
    /\ currentIndex = 1
    /\ currentTrack = At(playlist, 1)

\* C2: currentIndex lies in -1..length-1, and is -1 when the queue is empty.
CurrentIndexInRange ==
    /\ currentIndex \in Int
    /\ -1 <= currentIndex
    /\ currentIndex <= Len(playlist) - 1
    /\ Len(playlist) = 0 => currentIndex = -1

\* the only track of the queue was removed
QueueEmptiedByRemove ==
    /\ lastCall.op = "removeFromPlaylist"
    /\ lastCall.path = "current_last"
    /\ Len(playlist) = 0
    /\ currentIndex = -1

\* C4: setPlaylist(tracks, startIndex) replaces the queue by tracks; a start
\* index inside the list selects tracks[startIndex], any other start index
\* (and any start index for the empty list) selects nothing; the play mode is
\* kept.
SetPlaylistReplacesQueue ==
    [][\A tracks \in TrackLists, startIndex \in Indices :
           setPlaylist(tracks, startIndex) =>
               /\ playlist' = tracks
               /\ playMode' = playMode
               /\ IF 0 <= startIndex /\ startIndex < Len(tracks)
                  THEN /\ currentIndex' = startIndex
                       /\ currentTrack' = tracks[startIndex + 1]
                  ELSE /\ currentIndex' = -1
                       /\ currentTrack' = NULL]_vars

\* setPlaylist selected the last track of a full list while the mode was
\* shuffle
SetPlaylistSelectedLast ==
    /\ lastCall.op = "setPlaylist"
    /\ lastCall.path = "in_bounds"
    /\ Len(playlist) = MaxLen
    /\ currentIndex = MaxLen - 1
    /\ currentTrack = playlist[MaxLen]
    /\ playMode = SHUFFLE

\* C5: addToPlaylist of a track whose identifier is already in the queue
\* leaves the queue, currentIndex and the current track as they were.
AddDuplicateIgnored ==
    [][\A track \in Music :
           (addToPlaylist(track) /\ Some(playlist, track.id)) =>
               UNCHANGED <<playlist, currentIndex, currentTrack>>]_vars

\* C6: addToPlaylist of a track whose identifier is not in the queue appends
\* it; on an empty queue it becomes current at index 0, on a non-empty queue
\* currentIndex and the current track are kept.
AddNewAppends ==
    [][\A track \in Music :
           (addToPlaylist(track) /\ ~Some(playlist, track.id)) =>
               /\ playlist' = Append(playlist, track)
               /\ IF Len(playlist) = 0
                  THEN currentIndex' = 0 /\ currentTrack' = track
                  ELSE UNCHANGED <<currentIndex, currentTrack>>]_vars

\* a track was appended behind the current one
AppendedBehindCurrent ==
    /\ lastCall.op = "addToPlaylist"
    /\ lastCall.path = "pushed"
    /\ Len(playlist) = 3
    /\ currentIndex = 1
    /\ currentTrack = At(playlist, 1)

\* the queue without its position index (0-based)
Without(list, index) ==
    [k \in 1..(Len(list) - 1) |-> IF k <= index THEN list[k] ELSE list[k + 1]]

\* C7: removeFromPlaylist of the track at currentIndex.  Not the last one:
\* currentIndex keeps its value and the successor becomes current.  The last
\* one: currentIndex moves to the new last position.  The only one:
\* currentIndex is -1 and there is no current track.  The other tracks keep
\* their order.
RemoveCurrent ==
    [][\A trackId \in Ids :
           LET index == FindIndex(playlist, trackId)
               n == Len(playlist)
           IN  (removeFromPlaylist(trackId) /\ index # -1 /\ index = currentIndex) =>
                   /\ playlist' = Without(playlist, index)
                   /\ n = 1 => currentIndex' = -1 /\ currentTrack' = NULL
                   /\ (n > 1 /\ index < n - 1) =>
                          /\ currentIndex' = currentIndex
                          /\ currentTrack' = playlist[index + 2]
                   /\ (n > 1 /\ index = n - 1) =>
                          /\ currentIndex' = n - 2
                          /\ currentTrack' = playlist[n - 1]]_vars

\* the current track was removed from the middle of a queue of three and its
\* successor took its place
CurrentTrackRemovedMidQueue ==
    /\ lastCall.op = "removeFromPlaylist"
    /\ lastCall.path = "current_not_last"
    /\ NoDuplicateIds
    /\ Len(playlist) = 2
    /\ currentIndex = 1
    /\ currentTrack = At(playlist, 1)

\* C8: removeFromPlaylist of a track before the current one decrements
\* currentIndex by one and keeps the current track; of a track after the
\* current one, keeps both.
RemoveOther ==
    [][\A trackId \in Ids :
           LET index == FindIndex(playlist, trackId)
           IN  (removeFromPlaylist(trackId) /\ index # -1 /\ currentIndex >= 0) =>
                   /\ index < currentIndex =>
                          /\ currentIndex' = currentIndex - 1
                          /\ SameId(currentTrack', currentTrack)
                   /\ index > currentIndex =>
                          /\ currentIndex' = currentIndex
                          /\ SameId(currentTrack', currentTrack)]_vars

\* a track before the current one was removed
RemovedBeforeCurrent ==
    /\ lastCall.op = "removeFromPlaylist"
    /\ lastCall.path = "before"
    /\ NoDuplicateIds
    /\ Len(playlist) = 2
    /\ currentIndex = 1

\* C9: removeFromPlaylist of an identifier that is not in the queue (so also
\* on an empty queue) changes nothing.
RemoveAbsentNoOp ==
    [][\A trackId \in Ids :
           (removeFromPlaylist(trackId) /\ FindIndex(playlist, trackId) = -1) =>
               UNCHANGED <<playlist, currentIndex, currentTrack, playMode, isPlaying>>]_vars

\* an identifier not in a playing, non-empty queue was asked to be removed
RemoveMissedQueue ==
    /\ lastCall.op = "removeFromPlaylist"
    /\ lastCall.path = "not_found"
    /\ Len(playlist) = 2
    /\ currentIndex = 1
    /\ isPlaying

\* C10: playTrack(track) jumps to the position of track when its identifier
\* is in the queue and leaves the queue alone; otherwise it appends track and
\* jumps to the new last position.  The current track is track.
PlayTrackSelects ==
    [][\A track \in Music :
           LET index == FindIndex(playlist, track.id)
           IN  playTrack(track) =>
                   /\ IF index # -1
                      THEN /\ playlist' = playlist
                           /\ currentIndex' = index
                      ELSE /\ playlist' = Append(playlist, track)
                           /\ currentIndex' = Len(playlist)
                   /\ currentTrack' = track]_vars

\* playTrack jumped to the last track of a full queue
PlayTrackJumped ==
    /\ lastCall.op = "playTrack"
    /\ lastCall.path = "found"
    /\ NoDuplicateIds
    /\ Len(playlist) = MaxLen
    /\ currentIndex = MaxLen - 1
    /\ currentTrack = playlist[MaxLen]

\* C11: in sequential mode the queue does not wrap.  playNext at the last
\* index and playPrevious at index 0 return null and keep currentIndex and
\* the current track; at the other positions they move currentIndex by +1
\* and -1 and return the track at the new index.
SequentialDoesNotWrap ==
    [][playMode = SEQUENTIAL =>
           /\ playNext =>
                  IF currentIndex = Len(playlist) - 1
                  THEN /\ lastCall'.ret = NULL
                       /\ UNCHANGED <<currentIndex, currentTrack>>
                  ELSE /\ currentIndex' = currentIndex + 1
                       /\ lastCall'.ret = playlist[currentIndex + 2]
                       /\ currentTrack' = lastCall'.ret
           /\ (playPrevious /\ currentIndex >= 0) =>
                  IF currentIndex = 0
                  THEN /\ lastCall'.ret = NULL
                       /\ UNCHANGED <<currentIndex, currentTrack>>
                  ELSE /\ currentIndex' = currentIndex - 1
                       /\ lastCall'.ret = playlist[currentIndex]
                       /\ currentTrack' = lastCall'.ret]_vars

\* playNext was refused at the end of a full queue
PlayNextStoppedAtEnd ==
    /\ lastCall.op = "playNext"
    /\ lastCall.path = "at_end"
    /\ lastCall.ret = NULL
    /\ playMode = SEQUENTIAL
    /\ Len(playlist) = MaxLen
    /\ currentIndex = MaxLen - 1

\* C12: in repeat-one mode with a non-empty queue, playNext and playPrevious
\* keep currentIndex and return the track at that index.
RepeatOneReturnsTrack ==
    [][(playMode = REPEAT_ONE /\ ~isEmpty /\ (playNext \/ playPrevious)) =>
           /\ currentIndex' = currentIndex
           /\ lastCall'.ret \in Music
           /\ lastCall'.ret = At(playlist, currentIndex)]_vars

\* C13: in shuffle mode with more than one track, playNext and playPrevious
\* select a position of the queue other than the one that was current; with
\* one track they select position 0.
ShuffleNeverRepeats ==
    [][(playMode = SHUFFLE /\ ~isEmpty /\ (playNext \/ playPrevious)) =>
           /\ currentIndex' \in 0..(Len(playlist) - 1)
           /\ Len(playlist) > 1 => currentIndex' # currentIndex
           /\ Len(playlist) = 1 => currentIndex' = 0
           /\ currentTrack' = playlist[currentIndex' + 1]
           /\ lastCall'.ret = currentTrack']_vars

\* a shuffled playNext left the first track of a longer queue
ShuffledAway ==
    /\ lastCall.op = "playNext"
    /\ lastCall.path = "shuffle"
    /\ playMode = SHUFFLE
    /\ Len(playlist) = MaxLen
    /\ currentIndex > 0
    /\ lastCall.ret = At(playlist, currentIndex)

\* C15: jumpTo(index) with an index outside the queue changes nothing; with
\* an index inside it selects that position and its track; the queue is
\* never changed.
JumpToSelectsOrIgnores ==
    [][\A index \in Indices :
           jumpTo(index) =>
               /\ playlist' = playlist
               /\ IF index < 0 \/ index >= Len(playlist)
                  THEN UNCHANGED <<currentIndex, currentTrack>>
                  ELSE /\ currentIndex' = index
                       /\ currentTrack' = playlist[index + 1]]_vars

\* jumpTo was handed the index one past the end of a queue with a current
\* track
JumpToPastEndIgnored ==
    /\ lastCall.op = "jumpTo"
    /\ lastCall.path = "out_of_bounds"
    /\ Len(playlist) = 2
    /\ currentIndex = 1
    /\ currentTrack = At(playlist, 1)

\* the fixed cycle of the play modes
CycleSuccessor(mode) ==
    CASE mode = SEQUENTIAL -> REPEAT_ONE
      [] mode = REPEAT_ONE -> SHUFFLE
      [] mode = SHUFFLE    -> SEQUENTIAL

\* C16: togglePlayMode moves the play mode one step along sequential ->
\* repeat-one -> shuffle -> sequential, two more toggles bring the mode back,
\* and nothing else changes.
ToggleCyclesModes ==
    [][togglePlayMode =>
           /\ playMode' = CycleSuccessor(playMode)
           /\ NextMode(NextMode(playMode')) = playMode
           /\ UNCHANGED <<currentTrack, playlist, currentIndex, isPlaying>>]_vars

\* the mode was toggled from repeat-one to shuffle under a current track
ToggledToShuffle ==
    /\ lastCall.op = "togglePlayMode"
    /\ playMode = SHUFFLE
    /\ Len(playlist) = 2
    /\ currentIndex = 1
    /\ isPlaying

\* ------------------------------------------------------------------------
\* Properties of clearing
\* ------------------------------------------------------------------------

\* the store's empty state
EmptyStore ==
    /\ playlist = <<>>
    /\ currentIndex = -1
    /\ currentTrack = NULL
    /\ isPlaying = FALSE

\* C14: the store starts in the empty state (empty queue, index -1, no
\* current track, not playing), and clearPlaylist and logout, a failed fetch
\* of the user's record included, always leave it there.
ClearLeavesEmptyStore ==
    lastCall.op \in {"init", "clearPlaylist", "logout"} => EmptyStore

\* a failed fetch of the user's record logged the user out of a store that
\* had been used
LoggedOutByFailedFetch ==
    /\ lastCall = Call("logout", "fetchUserInfo", UNDEFINED)
    /\ token = NULL
    /\ ~fetching
    /\ playMode = SHUFFLE
    /\ EmptyStore

\* ------------------------------------------------------------------------
\* Properties of the audio controller
\* ------------------------------------------------------------------------

\* the platform dispatches an event at element e
EventAt(e) ==
    \/ Queued(e)
    \/ \E d \in 1..MaxTime : LoadedMetadata(e, d)
    \/ \E advance \in {0, 1} : TimeUpdate(e, advance)
    \/ \E bufferedEnd \in 0..MaxTime : Progress(e, bufferedEnd)
    \/ Waiting(e)
    \/ CanPlay(e)
    \/ Error(e)
    \/ Ended(e)
    \/ \E type \in EventTypes : StaleEvent(e, type)

\* C18: an event of an element created by an earlier loadTrack, of whatever
\* type, changes no ref and invokes no hook once a later loadTrack has
\* returned; and when loadTrack returns, no element but the new one has a
\* listener attached.
StaleEventsUnobserved ==
    [][/\ \A e \in Created :
              (e # audio /\ EventAt(e)) =>
                  (refs' = refs /\ lastAudio'.hook = "none")
       /\ (\E url \in Urls : loadTrack(url)) =>
              \A e \in Created : elements'[e].listeners = {}]_allVars

\* the first element, replaced by a second that is loading, dispatched an
\* event that nobody heard
ReplacedElementDispatched ==
    /\ lastAudio = Step("unheard", TRUE, "none")
    /\ Len(elements) = 2
    /\ audio = 2
    /\ elements[1].src = 0
    /\ elements[2].src # 0
    /\ refs.isLoading

\* C19: the settlement, fulfilled or rejected, of a play() request made on
\* an element that loadTrack or cleanup has since replaced changes no ref
\* and invokes no hook.
SupersededPlayIgnored ==
    [][\A e \in Created :
           (e # audio /\ (playResolved(e) \/ playRejected(e))) =>
               (refs' = refs /\ lastAudio'.hook = "none")]_allVars

\* C20: the controller holds at most one live element: every element but
\* the one held is paused, has no listener attached and has its media
\* unloaded.
OneLiveElement ==
    /\ audio \in 0..Len(elements)
    /\ \A e \in Created :
           e # audio => /\ elements[e].paused
                        /\ elements[e].listeners = {}
                        /\ elements[e].src = 0

\* as many elements as the bound allows were created, and the last one is
\* held and has just reported that it plays
ReplacementPlays ==
    /\ Len(elements) = MaxElements
    /\ audio = MaxElements
    /\ ~elements[audio].paused
    /\ refs.isPlaying
    /\ lastAudio = Step("play", FALSE, "none")
    /\ elements[1].src = 0

\* the volume is a number of tenths from 0 to 1, and the element held has it
VolumeInRange ==
    /\ refs.volume \in 0..One
    /\ audio # 0 => elements[audio].volume = refs.volume

\* C21: the volume ref is always within [0,1]; whenever an element is held
\* its volume is the volume ref; setVolume stores its argument clamped into
\* [0,1]; and nothing but setVolume changes the volume ref, so the value set
\* survives every later loadTrack, also when no element was held.
VolumeKept ==
    /\ []VolumeInRange
    /\ [][/\ \A vol \in VolumeArgs :
                 setVolume(vol) => refs'.volume = Max(0, Min(One, vol))
          /\ (\A vol \in VolumeArgs : ~setVolume(vol)) =>
                 refs'.volume = refs.volume]_allVars

\* the volume was set to a half with no element held, and the first element
\* has just been loaded at that volume
LoadedAtVolumeSetBefore ==
    /\ lastAudio = Step("loadTrack()", FALSE, "none")
    /\ Len(elements) = 1
    /\ audio = 1
    /\ refs.volume = 5
    /\ elements[1].volume = 5

\* time brought into [0, upper]
Clamped(time, upper) ==
    IF time < 0 THEN 0 ELSE IF time > upper THEN upper ELSE time

\* C22: seek(time) with an element held sets the element's position and the
\* currentTime ref, in one step, to time clamped into [0, duration], the
\* duration counting as 0 while it is unknown; with no element held seek
\* changes no ref and no element.
SeekClamps ==
    [][\A time \in SeekTimes :
           seek(time) =>
               IF audio = 0
               THEN UNCHANGED <<refs, elements, audio>>
               ELSE /\ elements'[audio].currentTime =
                           Clamped(time, elements[audio].duration)
                    /\ refs'.currentTime = Clamped(time, elements[audio].duration)
                    /\ refs' = [refs EXCEPT !.currentTime = refs'.currentTime]
                    /\ audio' = audio]_allVars

\* an element that never played, its duration known, was sought to its end
SoughtToTheEnd ==
    /\ lastAudio = Step("seek()", FALSE, "none")
    /\ audio # 0
    /\ elements[audio].duration = MaxTime
    /\ elements[audio].paused
    /\ ~elements[audio].ended
    /\ elements[audio].currentTime = MaxTime
    /\ refs.currentTime = MaxTime

\* no element is held, and every element is paused and has no listener
NothingHeld ==
    /\ audio = 0
    /\ \A e \in Created : elements[e].paused /\ elements[e].listeners = {}

\* C23, as stated: after cleanup() the playback is paused, no listener is
\* attached, no element is held, and every ref, the volume included, has
\* the value it was constructed with.
CleanupResetsEveryRef ==
    lastAudio.op = "cleanup()" => (NothingHeld /\ refs = InitialRefs)

\* C23, amended: cleanup() from any state leaves the element it held paused,
\* without listener and without media, holds no element, and resets every
\* ref but the volume to the value it was constructed with; the volume ref
\* keeps its value.
CleanupResetsAllButVolume ==
    [][cleanup =>
           /\ NothingHeld'
           /\ \A e \in Created : elements'[e].src = 0
           /\ refs' = [InitialRefs EXCEPT !.volume = refs.volume]]_allVars

\* cleanup ran while a play() request was awaited, the volume at one half
CleanedUpAtHalfVolume ==
    /\ lastAudio = Step("cleanup()", FALSE, "none")
    /\ audio = 0
    /\ Len(elements) = 1
    /\ elements[1].pending = 1
    /\ elements[1].paused
    /\ refs = [InitialRefs EXCEPT !.volume = 5]

\* C24: an element that has emitted 'ended' and still stands at its end
\* does not start playing again: it stays paused whatever the controller is
\* asked next, until loadTrack replaces it.
EndedNeverPlaysAgain ==
    [][\A e \in Created : elements[e].ended => elements'[e].paused]_allVars

\* C26: when the platform rejects a play() request, play() ends in its
\* catch: the error hook is invoked for the request, which is then no longer
\* awaited, no ref changes, and the elements are left as they are, so that
\* no further play() request is made; and play() with no element held
\* changes neither the refs nor the elements.
RejectedPlayReported ==
    [][/\ \A e \in Created :
              playRejected(e) =>
                  /\ lastAudio'.hook = "onError"
                  /\ elements' = [elements EXCEPT ![e].pending = @ - 1]
                  /\ Pending(elements') = Pending(elements) - 1
                  /\ UNCHANGED <<refs, audio>>
       /\ (play /\ audio = 0) => UNCHANGED <<refs, elements, audio>>]_allVars

\* the platform blocked the play() request on the element held and has
\* rejected it: the element is still paused and nothing is awaited
BlockedPlayRejected ==
    /\ lastAudio = Step("play:rejected", FALSE, "onError")
    /\ audio # 0
    /\ elements[audio].src # 0
    /\ elements[audio].paused
    /\ Pending(elements) = 0
    /\ ~refs.isPlaying

\* ------------------------------------------------------------------------
\* Properties of the player component
\* ------------------------------------------------------------------------

\* with k 'ended' events heard so far: they came from the first k tracks of
\* the queue in order; while the k-th is being reported the current track is
\* still the k-th; and once the player has settled the current track is the
\* next one (the last one if there is no next), it is the track loaded, and
\* after the last track nothing plays
EndedWalk ==
    LET n == Len(playlist)
        k == Len(endedTracks)
    IN  /\ k <= n
        /\ \A i \in 1..k : endedTracks[i] = playlist[i]
        /\ currentTrack = At(playlist, currentIndex)
        /\ reports.ended > 0 => currentIndex = k - 1
        /\ (Settled /\ reports.ended = 0) =>
               /\ currentIndex = Min(k, n - 1)
               /\ audio # 0
               /\ elements[audio].src = FileUrl(currentTrack)
               /\ k = n => /\ ~isPlaying
                           /\ ~refs.isPlaying
                           /\ elements[audio].paused

\* the advance after the k-th 'ended': the k+1-st track is returned, made
\* current, loaded into a new element and asked to play; after the last
\* track null is returned and neither the store nor the elements change
EndedAdvance ==
    LET n == Len(playlist)
        k == Len(endedTracks)
    IN  IF k < n
        THEN /\ lastCall'.ret = playlist[k + 1]
             /\ currentTrack' = playlist[k + 1]
             /\ currentIndex' = k
             /\ Len(elements') = Len(elements) + 1
             /\ audio' = Len(elements')
             /\ elements'[audio'].src = FileUrl(playlist[k + 1])
             /\ elements'[audio'].pending = 1
        ELSE /\ lastCall'.ret = NULL
             /\ currentIndex = n - 1
             /\ UNCHANGED <<currentIndex, currentTrack, elements, audio>>

ErrorStalls ==
    [][\A e \in Created :
           (Wired(Error(e)) /\ "error" \in elements[e].listeners) =>
               /\ refs' = [refs EXCEPT !.isLoading = FALSE, !.isPlaying = FALSE]
               /\ lastAudio' = Step("error", FALSE, "onError")
               /\ UNCHANGED <<playlist, currentIndex, currentTrack, playMode>>
               /\ UNCHANGED <<elements, audio>>
               /\ pc' = "idle"
               /\ UNCHANGED <<reports, endedTracks>>
               /\ watchedTrack' = currentTrack']_allVars

\* the second track of the queue was playing when its element reported an
\* error: the controller's flag is down, the store's has not followed yet
ErrorWhilePlayingSecond ==
    /\ lastAudio = Step("error", FALSE, "onError")
    /\ currentIndex = 1
    /\ audio # 0
    /\ ~elements[audio].paused
    /\ ~refs.isPlaying
    /\ isPlaying
    /\ pc = "idle"

\* C27: the advance that follows an 'ended' event does not wait for the
\* report of the play: whenever no handler is running and the watchers are
\* flushed, every 'ended' event heard so far has had its advance, whether
\* its report has completed or not.
AdvanceDoesNotAwaitReport ==
    Settled => currentIndex = Min(Len(endedTracks), Len(playlist) - 1)

\* C29: a change of the current track to a track with another identifier
\* causes one loadTrack: once the player has settled, one element was
\* created for the track the queue started with and one for each advance
\* to a next track.
OneLoadPerChange ==
    (Settled /\ reports.ended = 0) =>
        Len(elements) = 1 + Min(Len(endedTracks), Len(playlist) - 1)

\* C28: an 'ended' event advances the queue from the track that ended: when
\* the handler of the only 'ended' event heard so far goes on after its
\* report, the current track is still the track whose playback ended,
\* whatever the user did in the meantime.
EndedAdvancesFromEndedTrack ==
    [][(handleTrackEndedAdvance /\ Len(endedTracks) = 1) =>
           currentTrack = endedTracks[1]]_allVars

\* C30: whenever the queue has no current track and the player has
\* settled, the controller plays nothing: it holds no element or a paused
\* one, and its playing flag is false.
NoTrackNothingPlays ==
    (Settled /\ currentIndex = -1) =>
        /\ audio = 0 \/ elements[audio].paused
        /\ ~refs.isPlaying

\* C31: the store's playing flag mirrors the controller's: whenever no
\* handler is running and no watcher has anything to flush, the two flags
\* are equal.
PlayingMirrored ==
    Settled => isPlaying = refs.isPlaying

LoadTrackResetsEveryFlag ==
    lastAudio.op = "loadTrack()" =>
        /\ refs.currentTime = 0
        /\ refs.duration = 0
        /\ refs.buffered = 0
        /\ ~refs.isPlaying
        /\ ~refs.isLoading

\* C33, amended: right after loadTrack(url) has returned, whatever the state
\* before, the position is 0, the duration 0, the buffered fraction 0 and
\* the playing flag false, and the loading flag is true.
LoadTrackResetsAndLoads ==
    lastAudio.op = "loadTrack()" =>
        /\ refs.currentTime = 0
        /\ refs.duration = 0
        /\ refs.buffered = 0
        /\ ~refs.isPlaying
        /\ refs.isLoading

\* a second track was loaded while the play() request on the first was
\* still awaited
ReloadedWhilePlayAwaited ==
    /\ lastAudio = Step("loadTrack()", FALSE, "none")
    /\ audio = 2
    /\ elements[1].pending = 1
    /\ elements[2].src # 0
    /\ refs.isLoading
    /\ ~refs.isPlaying

\* C34: in every queue state and play mode, hasNext is true exactly when
\* playNext() returns a track, and hasPrevious is true exactly when
\* playPrevious() returns a track.
HasNextTellsPlayNext ==
    [][/\ playNext => (Truthy(lastCall'.ret) <=> hasNext)
       /\ playPrevious => (Truthy(lastCall'.ret) <=> hasPrevious)]_vars

QueueCall ==
    \/ \E tracks \in {Queue(1), Queue(2)} : setPlaylist(tracks, 0)
    \/ \E track \in Handed : addToPlaylist(track)
    \/ \E track \in Handed : removeFromPlaylist(track.id)
    \/ clearPlaylist
    \/ \E track \in Handed : playTrack(track)

\* the calls that move within the queue or set a flag
NavigationCall ==
    \/ playNext
    \/ playPrevious
    \/ \E index \in Positions : jumpTo(index)
    \/ togglePlayMode
    \/ \E playing \in BOOLEAN : setPlaying(playing)

\* the transport events the controller hears
TransportEvent ==
    /\ lastAudio' # lastAudio
    /\ lastAudio'.op \in {"ended", "error", "timeupdate", "waiting", "canplay"}

\* C36: the queue is changed only by setPlaylist, addToPlaylist,
\* removeFromPlaylist, clearPlaylist and playTrack: playNext, playPrevious,
\* jumpTo, togglePlayMode, setPlaying and every transport event (ended,
\* error, time-update, waiting, can-play) leave the queue as it is, and
\* only togglePlayMode changes the play mode
QueueAndModeFrame ==
    [][/\ playlist' # playlist => QueueCall
       /\ NavigationCall => playlist' = playlist
       /\ TransportEvent => playlist' = playlist
       /\ playMode' # playMode => togglePlayMode]_allVars

\* a track of a queue of two ended by itself after the mode was toggled
EndedHeardAfterToggle ==
    /\ lastAudio.op = "ended"
    /\ lastAudio.hook = "onEnded"
    /\ Len(playlist) > 1
    /\ playMode # modes[1]

====
